---- MODULE Spec2Model ----
(***************************************************************************)
(* Corpus construction of BoostedFactorization (src/src/helpers.py):       *)
(* DeepWalker builds a graph from an edge list, samples truncated random   *)
(* walks, extracts windowed co-occurrence pairs, counts and prunes them,   *)
(* and assembles the sparse target matrix.  The module also models the     *)
(* weighted key sampler `sampling`.                                        *)
(*                                                                         *)
(* Python lists are sequences (index n of Python is index n+1 here),       *)
(* dictionaries are functions, random choices are nondeterministic.        *)
(* Counts stay far below 2^24, so the float32 cast of line 197 is exact    *)
(* and matrix values are kept as the integers they were cast from.         *)
(* Weights and draws of `sampling` are multiples of 1/Resolution, so its   *)
(* additions are exact; floating-point rounding is not modelled.           *)
(***************************************************************************)
EXTENDS Integers, Sequences, FiniteSets, TLC

\* ------------------------------------------------------------- bounds
MaxWalkLength == 3
MaxNumberOfWalks == 1
MaxWindowSize == 3
MaxThreshold == 1
MaxKeys == 2
MaxWeight == 3
Resolution == 3

\* Edge lists read from the input file (rows of two node ids, in file order).
EdgeLists ==
    { << <<1, 0>> >>,
      << <<0, 1>>, <<1, 2>> >>,
      << <<0, 0>>, <<0, 1>> >>,
      << <<0, 2>> >> }

VARIABLES
    edges,              \* the edge list the graph is built from
    walk_length, number_of_walks, window_size, pruning_threshold,   \* self.args
    pc,                 \* position of the pipeline
    walks,              \* self.walks
    i, k,               \* do_walks: repetition index, position in graph.nodes()
    container,          \* self.container while it is the list of pair lists
    j,                  \* do_processing: position of the for loop over self.walks
    walk, omega, sources, nebs, pairs,   \* locals of processor
    emitted,            \* the two comprehension lists of the current offset
    counter,            \* self.container after line 190 (the Counter)
    pruned,             \* self.container after line 191 (the pruned dict)
    A,                  \* self.A, as the map of its stored entries
    probs, prob, score, idx, key, spc    \* sampling: argument, draw, locals, position

pipeline_vars == << edges, walk_length, number_of_walks, window_size,
                    pruning_threshold, pc, walks, i, k, container, j, walk,
                    omega, sources, nebs, pairs, emitted, counter, pruned, A >>
sampling_vars == << probs, prob, score, idx, key, spc >>
vars == << pipeline_vars, sampling_vars >>

\* ------------------------------------------------------------- helpers
Max(a, b) == IF a >= b THEN a ELSE b
Min(a, b) == IF a <= b THEN a ELSE b
Range(s) == { s[n] : n \in DOMAIN s }
EmptyDict == [p \in {} |-> 0]

\* Python's s[start:stop]: negative indices count from the end, both ends are
\* clamped into 0..len(s).
SliceIndex(len, n) == IF n < 0 THEN Max(len + n, 0) ELSE Min(n, len)
PySlice(s, start, stop) ==
    LET a == SliceIndex(Len(s), start)
        b == SliceIndex(Len(s), stop)
    IN  IF a < b THEN SubSeq(s, a + 1, b) ELSE << >>

\* ------------------------------------------------------------- graph
\* nx.from_edgelist: nodes in order of first appearance in the edge list.
RECURSIVE NodeOrder(_, _)
NodeOrder(es, acc) ==
    IF es = << >> THEN acc
    ELSE LET u == Head(es)[1]
             v == Head(es)[2]
             a1 == IF u \in Range(acc) THEN acc ELSE Append(acc, u)
             a2 == IF v \in Range(a1) THEN a1 ELSE Append(a1, v)
         IN  NodeOrder(Tail(es), a2)

graph_nodes == NodeOrder(edges, << >>)
NodeCount == Len(graph_nodes)
shape == << NodeCount, NodeCount >>

\* nx.neighbors on the undirected graph es (a self-loop makes a node its own
\* neighbour).
neighbors(es, n) ==
    { e[2] : e \in { x \in Range(es) : x[1] = n } } \cup
    { e[1] : e \in { x \in Range(es) : x[2] = n } }

\* ------------------------------------------------------------- do_a_walk
WalkContinuesOffByOne(nodes, wl) == Len(nodes) <= wl
\* the while condition of line 148
WalkContinues(nodes, wl) == Len(nodes) < wl

\* All the lists the loop of lines 148-153 can end with, from `nodes`: one per
\* outcome of random.sample.
RECURSIVE WalksFrom(_, _, _)
WalksFrom(es, wl, nodes) ==
    IF WalkContinues(nodes, wl)
    THEN LET cur == neighbors(es, nodes[Len(nodes)])
         IN  IF cur # {}
             THEN UNION { WalksFrom(es, wl, Append(nodes, n)) : n \in cur }
             ELSE { nodes }
    ELSE { nodes }

\* do_a_walk(node) on graph es with args.walk_length = wl
do_a_walk(es, wl, node) == WalksFrom(es, wl, << node >>)

\* ------------------------------------------------------------- processor
SourcesOffByOne(w, o) == PySlice(w, 0, Len(w) - o + 1)
\* line 175
Sources(w, o) == PySlice(w, 0, Len(w) - o)
\* line 176
Nebs(w, o) == PySlice(w, o, Len(w))
\* nebs[i] of lines 177-178 raises IndexError when sources is longer than nebs.
Raises(w, o) == Len(Sources(w, o)) > Len(Nebs(w, o))
\* line 177
Forward(w, o) == [ n \in 1..Len(Sources(w, o)) |-> << Sources(w, o)[n], Nebs(w, o)[n] >> ]
BackwardSameDirection(w, o) == Forward(w, o)
BackwardMissing(w, o) == << >>
\* line 178
Backward(w, o) == [ n \in 1..Len(Sources(w, o)) |-> << Nebs(w, o)[n], Sources(w, o)[n] >> ]

\* The whole of processor(walk) with args.window_size = ws: the pairs it
\* returns, or raised.
RECURSIVE ProcessorFrom(_, _, _, _)
ProcessorFrom(w, ws, o, acc) ==
    IF o > ws THEN [ raised |-> FALSE, pairs |-> acc ]
    ELSE IF Raises(w, o) THEN [ raised |-> TRUE, pairs |-> << >> ]
    ELSE ProcessorFrom(w, ws, o + 1, acc \o Forward(w, o) \o Backward(w, o))

processor(w, ws) == ProcessorFrom(w, ws, 1, << >>)

\* ------------------------------------------------------------- do_processing
\* line 190: the flattened pair stream
RECURSIVE Flatten(_)
Flatten(lists) ==
    IF lists = << >> THEN << >> ELSE Head(lists) \o Flatten(Tail(lists))

Increment(c, p) ==
    IF p \in DOMAIN c THEN [ c EXCEPT ![p] = @ + 1 ]
    ELSE [ q \in DOMAIN c \cup {p} |-> IF q = p THEN 1 ELSE c[q] ]

\* Counter(stream), started from the count c
RECURSIVE CounterUpdate(_, _)
CounterUpdate(c, stream) ==
    IF stream = << >> THEN c
    ELSE CounterUpdate(Increment(c, Head(stream)), Tail(stream))

\* Counter addition: the count of a concatenation is the sum of the counts.
CounterAdd(c, d) ==
    [ p \in DOMAIN c \cup DOMAIN d |->
        (IF p \in DOMAIN c THEN c[p] ELSE 0) + (IF p \in DOMAIN d THEN d[p] ELSE 0) ]

KeepAtLeast(v, t) == v >= t
KeepBelow(v, t) == v <= t
\* the filter of line 191 with args.pruning_threshold = t
Keep(v, t) == v > t

Prune(c, t) == [ p \in { q \in DOMAIN c : Keep(c[q], t) } |-> c[p] ]

\* coo_matrix rejects an index outside the shape (ValueError).
OutOfShape(d) ==
    \E p \in DOMAIN d : \/ p[1] < 0 \/ p[1] >= shape[1]
                        \/ p[2] < 0 \/ p[2] >= shape[2]

\* ------------------------------------------------------------- states
IdleSampling ==
    /\ probs = << >> /\ prob = 0 /\ score = 0 /\ idx = 1 /\ key = 0
    /\ spc = "idle"

\* DeepWalker.__init__ up to line 137: arguments stored, graph built.
Init ==
    /\ edges \in EdgeLists
    /\ walk_length \in 0..MaxWalkLength
    /\ number_of_walks \in 0..MaxNumberOfWalks
    /\ window_size \in 0..MaxWindowSize
    /\ pruning_threshold \in 0..MaxThreshold
    /\ pc = "do_walks"
    /\ walks = << >> /\ i = 0 /\ k = 1
    /\ container = << >> /\ j = 1
    /\ walk = << >> /\ omega = 0 /\ sources = << >> /\ nebs = << >>
    /\ pairs = << >> /\ emitted = << >>
    /\ counter = EmptyDict /\ pruned = EmptyDict /\ A = EmptyDict
    /\ IdleSampling

\* ------------------------------------------------------------- do_walks
AppendWalkReplacing(ws, w) == << w >>
\* line 165
AppendWalk(ws, w) == Append(ws, w)

\* One iteration of the inner loop of do_walks (lines 163-165).
DoWalk ==
    /\ pc = "do_walks"
    /\ i < number_of_walks
    /\ \E w \in do_a_walk(edges, walk_length, graph_nodes[k]) :
          walks' = AppendWalk(walks, w)
    /\ IF k < NodeCount
       THEN k' = k + 1 /\ i' = i
       ELSE k' = 1 /\ i' = i + 1
    /\ UNCHANGED << edges, walk_length, number_of_walks, window_size,
                    pruning_threshold, pc, container, j, walk, omega, sources,
                    nebs, pairs, emitted, counter, pruned, A, sampling_vars >>

\* do_walks returns; do_processing starts (line 186).
DoWalksReturn ==
    /\ pc = "do_walks"
    /\ i >= number_of_walks
    /\ pc' = "do_processing"
    /\ container' = << >>
    /\ j' = 1
    /\ UNCHANGED << edges, walk_length, number_of_walks, window_size,
                    pruning_threshold, walks, i, k, walk, omega, sources, nebs,
                    pairs, emitted, counter, pruned, A, sampling_vars >>

\* ------------------------------------------------------------- processor, by offset
\* line 189 calls processor(walk); line 173.
ProcessorCall ==
    /\ pc = "do_processing"
    /\ j <= Len(walks)
    /\ walk' = walks[j]
    /\ pairs' = << >>
    /\ omega' = 0
    /\ sources' = << >> /\ nebs' = << >> /\ emitted' = << >>
    /\ pc' = "processor"
    /\ UNCHANGED << edges, walk_length, number_of_walks, window_size,
                    pruning_threshold, walks, i, k, container, j, counter,
                    pruned, A, sampling_vars >>

\* One iteration of the loop over omega (lines 174-178); omega is the offset
\* of the iteration that ran last.
ProcessorStep ==
    /\ pc = "processor"
    /\ omega < window_size
    /\ omega' = omega + 1
    /\ sources' = Sources(walk, omega + 1)
    /\ nebs' = Nebs(walk, omega + 1)
    /\ IF Raises(walk, omega + 1)
       THEN /\ pc' = "IndexError"
            /\ emitted' = << >>
            /\ pairs' = pairs
       ELSE /\ emitted' = Forward(walk, omega + 1) \o Backward(walk, omega + 1)
            /\ pairs' = pairs \o Forward(walk, omega + 1) \o Backward(walk, omega + 1)
            /\ pc' = pc
    /\ UNCHANGED << edges, walk_length, number_of_walks, window_size,
                    pruning_threshold, walks, i, k, container, j, walk,
                    counter, pruned, A, sampling_vars >>

\* line 179 returns pairs; line 189 appends them.
ProcessorReturn ==
    /\ pc = "processor"
    /\ omega >= window_size
    /\ container' = Append(container, pairs)
    /\ j' = j + 1
    /\ pc' = "do_processing"
    /\ walk' = << >> /\ omega' = 0 /\ sources' = << >> /\ nebs' = << >>
    /\ pairs' = << >> /\ emitted' = << >>
    /\ UNCHANGED << edges, walk_length, number_of_walks, window_size,
                    pruning_threshold, walks, i, k, counter, pruned, A,
                    sampling_vars >>

\* Lines 190-197: count, prune, assemble.
Aggregate ==
    /\ pc = "do_processing"
    /\ j > Len(walks)
    /\ counter' = CounterUpdate(EmptyDict, Flatten(container))
    /\ pruned' = Prune(counter', pruning_threshold)
    /\ IF OutOfShape(pruned')
       THEN pc' = "ValueError" /\ A' = A
       ELSE pc' = "done" /\ A' = pruned'
    /\ UNCHANGED << edges, walk_length, number_of_walks, window_size,
                    pruning_threshold, walks, i, k, container, j, walk, omega,
                    sources, nebs, pairs, emitted, sampling_vars >>

Next ==
    \/ DoWalk
    \/ DoWalksReturn
    \/ ProcessorCall
    \/ ProcessorStep
    \/ ProcessorReturn
    \/ Aggregate

Spec == Init /\ [][Next]_vars

\* ------------------------------------------------------------- the triangle run
\* The end-to-end scenario: the triangle graph and its arguments.
Triangle == << <<0, 1>>, <<1, 2>>, <<2, 0>> >>
TriangleArgs == [ walk_length |-> 5, number_of_walks |-> 20,
                  window_size |-> 1, pruning_threshold |-> 0 ]

\* For each source of the scenario, what processor makes of each walk
\* do_a_walk can produce from it: whether it raised, and the count of the
\* pairs it returned (the same for every repetition, so computed once).
WalkCount(w, ws) ==
    [ raised |-> processor(w, ws).raised,
      count |-> CounterUpdate(EmptyDict, processor(w, ws).pairs) ]

TriangleOutputs ==
    [ n \in Range(NodeOrder(Triangle, << >>)) |->
        { WalkCount(w, TriangleArgs.window_size) :
            w \in do_a_walk(Triangle, TriangleArgs.walk_length, n) } ]

\* The same pipeline with the corpus held as the count of the pairs it emits
\* instead of as the list of walks: line 190 counts the concatenation of the
\* pair lists, and that count is the sum of the counts of each walk's pairs,
\* in any order.  The 60 walks of the scenario are then 60 counter additions.
InitTriangle ==
    /\ edges = Triangle
    /\ walk_length = TriangleArgs.walk_length
    /\ number_of_walks = TriangleArgs.number_of_walks
    /\ window_size = TriangleArgs.window_size
    /\ pruning_threshold = TriangleArgs.pruning_threshold
    /\ pc = "stream"
    /\ walks = << >> /\ i = 0 /\ k = 1
    /\ container = << >> /\ j = 1
    /\ walk = << >> /\ omega = 0 /\ sources = << >> /\ nebs = << >>
    /\ pairs = << >> /\ emitted = << >>
    /\ counter = EmptyDict /\ pruned = EmptyDict /\ A = EmptyDict
    /\ IdleSampling

\* One walk (lines 163-165) and its share of lines 188-190.
StreamWalk ==
    /\ pc = "stream"
    /\ i < number_of_walks
    /\ \E r \in TriangleOutputs[graph_nodes[k]] :
          IF r.raised
          THEN pc' = "IndexError" /\ counter' = counter
          ELSE pc' = pc /\ counter' = CounterAdd(counter, r.count)
    /\ IF k < NodeCount
       THEN k' = k + 1 /\ i' = i
       ELSE k' = 1 /\ i' = i + 1
    /\ UNCHANGED << edges, walk_length, number_of_walks, window_size,
                    pruning_threshold, walks, container, j, walk, omega,
                    sources, nebs, pairs, emitted, pruned, A, sampling_vars >>

\* Lines 191-197 on the finished count.
StreamAggregate ==
    /\ pc = "stream"
    /\ i >= number_of_walks
    /\ pruned' = Prune(counter, pruning_threshold)
    /\ IF OutOfShape(pruned')
       THEN pc' = "ValueError" /\ A' = A
       ELSE pc' = "done" /\ A' = pruned'
    /\ UNCHANGED << edges, walk_length, number_of_walks, window_size,
                    pruning_threshold, walks, i, k, container, j, walk, omega,
                    sources, nebs, pairs, emitted, counter, sampling_vars >>

NextTriangle ==
    \/ StreamWalk
    \/ StreamAggregate

SpecTriangle == InitTriangle /\ [][NextTriangle]_vars

\* ------------------------------------------------------------- sampling
\* A dictionary in iteration order: items with distinct keys.
Items == [ key : 1..MaxKeys, value : 0..MaxWeight ]
Dicts ==
    UNION { { d \in [ 1..n -> Items ] :
                \A a, b \in 1..n : a # b => d[a].key # d[b].key } :
            n \in 0..MaxKeys }

\* sampling(probs) after lines 102-103: the draw is made, score is 0.
\* prob stands for prob/Resolution in [0,1), a weight w for w/Resolution.
InitSampling ==
    /\ probs \in Dicts
    /\ prob \in 0..(Resolution - 1)
    /\ score = 0
    /\ idx = 1
    /\ key = 0
    /\ spc = "loop"
    /\ edges = << <<0, 1>> >>
    /\ walk_length = 0 /\ number_of_walks = 0
    /\ window_size = 0 /\ pruning_threshold = 0
    /\ pc = "idle"
    /\ walks = << >> /\ i = 0 /\ k = 1
    /\ container = << >> /\ j = 1
    /\ walk = << >> /\ omega = 0 /\ sources = << >> /\ nebs = << >>
    /\ pairs = << >> /\ emitted = << >>
    /\ counter = EmptyDict /\ pruned = EmptyDict /\ A = EmptyDict

ReachedStrictly(p, s) == p < s
\* the test of line 106
Reached(p, s) == p <= s

\* One iteration of the loop of lines 104-107.
SamplingStep ==
    /\ spc = "loop"
    /\ idx <= Len(probs)
    /\ score' = score + probs[idx].value
    /\ IF Reached(prob, score')
       THEN key' = probs[idx].key /\ spc' = "returned" /\ idx' = idx
       ELSE key' = key /\ spc' = spc /\ idx' = idx + 1
    /\ UNCHANGED << probs, prob, pipeline_vars >>

\* Line 108: the loop ended without returning.
SamplingUnreachable ==
    /\ spc = "loop"
    /\ idx > Len(probs)
    /\ spc' = "AssertionError"
    /\ UNCHANGED << probs, prob, score, idx, key, pipeline_vars >>

NextSampling ==
    \/ SamplingStep
    \/ SamplingUnreachable

SpecSampling == InitSampling /\ [][NextSampling]_vars

\* ============================================================= properties
NodeIds == Range(graph_nodes)
AllPairs == NodeIds \X NodeIds
OffDiagonal == { p \in AllPairs : p[1] # p[2] }
Mirror(p) == << p[2], p[1] >>
\* occurrences of p in a list
SeqCount(s, p) == Cardinality({ n \in DOMAIN s : s[n] = p })
\* the value a dictionary or Counter gives for p (0 when absent)
CountIn(c, p) == IF p \in DOMAIN c THEN c[p] ELSE 0
\* total number of times p was emitted over all walks of the corpus
Emissions(p) == SeqCount(Flatten(container), p)
Joined(a, b) == \E e \in Range(edges) : e = << a, b >> \/ e = << b, a >>
\* the source do_walks passed to do_a_walk for the n-th walk of the corpus
SourceOfWalk(n) == graph_nodes[((n - 1) % NodeCount) + 1]
Symmetric(m) == \A p \in DOMAIN m : Mirror(p) \in DOMAIN m /\ m[Mirror(p)] = m[p]
NoZeroRow(m) == \A a \in NodeIds : \E b \in NodeIds : CountIn(m, << a, b >>) > 0

\* ---- C1 ----
\* C1 as stated: every walk do_a_walk returned starts at its source, has between
\* 1 and walk_length nodes, and every two consecutive nodes are joined by an
\* edge of the graph.
C1_WalkWithinWalkLength ==
    \A n \in 1..Len(walks) :
        /\ walks[n][1] = SourceOfWalk(n)
        /\ Len(walks[n]) >= 1
        /\ Len(walks[n]) <= walk_length
        /\ \A m \in 1..(Len(walks[n]) - 1) : Joined(walks[n][m], walks[n][m + 1])

\* C1 amended: every walk do_a_walk returned starts at its source, has between
\* 1 and max(1, walk_length) nodes (the source is always in the walk, also when
\* walk_length is 0), and every two consecutive nodes are joined by an edge.
C1_WalkShape ==
    \A n \in 1..Len(walks) :
        /\ walks[n][1] = SourceOfWalk(n)
        /\ Len(walks[n]) >= 1
        /\ Len(walks[n]) <= Max(1, walk_length)
        /\ \A m \in 1..(Len(walks[n]) - 1) : Joined(walks[n][m], walks[n][m + 1])

C1_Witness ==
    /\ walk_length = 3
    /\ \E n \in 1..Len(walks) :
          Len(walks[n]) = 3 /\ walks[n][3] # walks[n][1] /\ n > 1

\* ---- C2 ----
\* C2 as stated: when processor has run the iteration of an offset omega with
\* omega >= len(walk), sources and nebs are both empty, no pair was emitted for
\* the offset and no error was raised.
C2_EmptySlicesBeyondWalk ==
    (pc \in { "processor", "IndexError" } /\ omega >= 1 /\ omega >= Len(walk))
        => /\ sources = << >>
           /\ nebs = << >>
           /\ emitted = << >>
           /\ pc # "IndexError"

\* ---- C3 ----
\* C3: processor applied to a walk of exactly one node returns the empty pair
\* list and does not raise, for every window_size >= 1.
C3_SingleNodeWalk ==
    /\ \A n \in 1..Len(container) :
          (Len(walks[n]) = 1 /\ window_size >= 1) => container[n] = << >>
    /\ (pc = "IndexError" /\ window_size >= 1) => Len(walk) # 1
    /\ (pc = "processor" /\ window_size >= 1 /\ Len(walk) = 1) => pairs = << >>

C3_Witness ==
    /\ window_size >= 2
    /\ pc = "do_processing"
    /\ \E n \in 1..Len(container) : Len(walks[n]) = 1 /\ container[n] = << >>

\* ---- C4 ----
\* C4: after do_processing, the matrix has a stored entry at (a,b) exactly when
\* the number of times (a,b) was emitted over all walks is greater than
\* pruning_threshold, and the stored value is that number.
C4_MatrixIsPrunedCount ==
    pc = "done" =>
        /\ DOMAIN A \subseteq AllPairs
        /\ \A p \in AllPairs :
              /\ (p \in DOMAIN A) <=> (Emissions(p) > pruning_threshold)
              /\ (p \in DOMAIN A) => (A[p] = Emissions(p))

C4_Witness ==
    /\ pc = "done"
    /\ \E p \in AllPairs : p \in DOMAIN A /\ A[p] = 2
    /\ \E p \in AllPairs : p \notin DOMAIN A /\ Emissions(p) = 1

\* ---- C5 ----
\* C5: the frequency mapping counts (a,b) as often as (b,a), so (a,b) survives
\* pruning exactly when (b,a) does, and the matrix is symmetric.
C5_SymmetricOutput ==
    pc \in { "done", "ValueError" } =>
        \A p \in DOMAIN counter \cup AllPairs :
            /\ CountIn(counter, p) = CountIn(counter, Mirror(p))
            /\ (p \in DOMAIN pruned) <=> (Mirror(p) \in DOMAIN pruned)
            /\ (p \in DOMAIN A) => (Mirror(p) \in DOMAIN A /\ A[Mirror(p)] = A[p])

C5_Witness ==
    /\ pc = "done"
    /\ pruning_threshold = 1
    /\ \E p \in OffDiagonal : p \in DOMAIN A /\ A[p] = A[Mirror(p)]
    /\ \E p \in OffDiagonal : p \in DOMAIN counter /\ p \notin DOMAIN A

\* ---- C6 ----
\* C6: for the same corpus and window_size, the pairs surviving a higher
\* threshold are among those surviving a lower one, so raising the threshold
\* never increases the number of stored entries.
C6_PruningMonotone ==
    pc \in { "done", "ValueError" } =>
        \A t \in 0..(MaxThreshold + 2) :
            /\ t < pruning_threshold =>
                  /\ DOMAIN pruned \subseteq DOMAIN Prune(counter, t)
                  /\ Cardinality(DOMAIN pruned) <= Cardinality(DOMAIN Prune(counter, t))
            /\ t > pruning_threshold =>
                  /\ DOMAIN Prune(counter, t) \subseteq DOMAIN pruned
                  /\ Cardinality(DOMAIN Prune(counter, t)) <= Cardinality(DOMAIN pruned)

C6_Witness ==
    /\ pc = "done"
    /\ pruning_threshold = 1
    /\ pruned # EmptyDict
    /\ Cardinality(DOMAIN pruned) < Cardinality(DOMAIN Prune(counter, 0))
    /\ Cardinality(DOMAIN Prune(counter, 2)) < Cardinality(DOMAIN pruned)

\* ---- C7 ----
\* C7 as stated: whatever the random choices, the triangle run ends with a 3x3
\* symmetric matrix whose six off-diagonal entries are all positive and that
\* has no zero row.
C7_AllOffDiagonalPositive ==
    pc = "done" =>
        /\ shape = << 3, 3 >>
        /\ Symmetric(A)
        /\ \A p \in OffDiagonal : CountIn(A, p) > 0
        /\ NoZeroRow(A)

\* C7 amended: whatever the random choices, the triangle run raises nothing,
\* its pair count is symmetric throughout, and it ends with a 3x3 symmetric
\* matrix with no zero row, an empty diagonal, positive stored entries, and at
\* least four of the six off-diagonal entries stored.
C7_TriangleOutput ==
    /\ pc \in { "stream", "done" }
    /\ Symmetric(counter)
    /\ pc = "done" =>
          /\ shape = << 3, 3 >>
          /\ Symmetric(A)
          /\ NoZeroRow(A)
          /\ DOMAIN A \subseteq OffDiagonal
          /\ \A p \in DOMAIN A : A[p] > 0
          /\ Cardinality(DOMAIN A) >= 4

C7_Witness ==
    /\ pc = "done"
    /\ number_of_walks = 20 /\ walk_length = 5
    /\ << 1, 2 >> \notin DOMAIN A
    /\ Cardinality(DOMAIN A) = 4

\* ---- C8 ----
\* cumulative weight of the first n items, in iteration order
RECURSIVE Cumulative(_, _)
Cumulative(d, n) == IF n = 0 THEN 0 ELSE Cumulative(d, n - 1) + d[n].value

\* C8: sampling returns the first key, in iteration order, whose cumulative
\* weight meets or exceeds the draw; it reaches the assertion exactly when no
\* prefix of the cumulative weights reaches the draw, which does not happen
\* when the weights sum to at least 1.
C8_FirstKeyReachingDraw ==
    /\ spc = "returned" =>
          \E n \in 1..Len(probs) :
              /\ key = probs[n].key
              /\ Cumulative(probs, n) >= prob
              /\ \A m \in 1..(n - 1) : Cumulative(probs, m) < prob
    /\ spc = "AssertionError" =>
          \A n \in 1..Len(probs) : Cumulative(probs, n) < prob
    /\ (Cumulative(probs, Len(probs)) >= Resolution) => spc # "AssertionError"

C8_Witness ==
    /\ spc = "returned"
    /\ Len(probs) = 2
    /\ key = probs[2].key
    /\ probs[1].value = 0
    /\ prob > 0
    /\ Cumulative(probs, 2) = prob

\* ---- C9 ----
\* offsets of the window that lie inside the walk
InWindow(w) == { o \in 1..window_size : o < Len(w) }
\* how often the claim has p emitted for offset o: once per position n with
\* (w[n], w[n+o]) = p and once per position with (w[n+o], w[n]) = p
ClaimedAt(w, o, p) ==
    Cardinality({ n \in 1..(Len(w) - o) : << w[n], w[n + o] >> = p }) +
    Cardinality({ n \in 1..(Len(w) - o) : << w[n + o], w[n] >> = p })
ClaimedTotal(w, p) ==
    Cardinality({ x \in InWindow(w) \X (1..Len(w)) :
                    x[2] + x[1] <= Len(w) /\ << w[x[2]], w[x[2] + x[1]] >> = p }) +
    Cardinality({ x \in InWindow(w) \X (1..Len(w)) :
                    x[2] + x[1] <= Len(w) /\ << w[x[2] + x[1]], w[x[2]] >> = p })

\* C9 as stated: for every offset inside the walk and the window, the iteration
\* emits exactly the claimed pairs, duplicates kept, 2*(len(walk)-omega) of
\* them; what processor returns holds these and nothing else; and processor
\* does emit them, that is, it returns for every walk that has such an offset.
C9_WindowPairsEmitted ==
    /\ (pc = "processor" /\ omega \in InWindow(walk)) =>
          /\ Len(emitted) = 2 * (Len(walk) - omega)
          /\ \A p \in Range(walk) \X Range(walk) :
                SeqCount(emitted, p) = ClaimedAt(walk, omega, p)
    /\ \A n \in 1..Len(container) :
          \A p \in Range(container[n]) \cup (Range(walks[n]) \X Range(walks[n])) :
              SeqCount(container[n], p) = ClaimedTotal(walks[n], p)
    /\ pc = "IndexError" => InWindow(walk) = {}

\* The part of C9 that the code keeps: the same, for the walks on which
\* processor does not raise.
C9_WindowPairsWhenReturned ==
    /\ (pc = "processor" /\ omega \in InWindow(walk)) =>
          /\ Len(emitted) = 2 * (Len(walk) - omega)
          /\ \A p \in Range(walk) \X Range(walk) :
                SeqCount(emitted, p) = ClaimedAt(walk, omega, p)
    /\ \A n \in 1..Len(container) :
          \A p \in Range(container[n]) \cup (Range(walks[n]) \X Range(walks[n])) :
              SeqCount(container[n], p) = ClaimedTotal(walks[n], p)

\* ---- C10 ----
\* C10: after do_walks the corpus holds NodeCount * number_of_walks walks, every
\* node is the first element of exactly number_of_walks of them, and a walk in
\* the corpus is never changed by a later step.
C10_CorpusComplete ==
    /\ [](pc \in { "do_processing", "processor", "done", "IndexError", "ValueError" } =>
            /\ Len(walks) = NodeCount * number_of_walks
            /\ \A a \in NodeIds :
                  Cardinality({ n \in 1..Len(walks) : walks[n][1] = a }) = number_of_walks)
    /\ [][\A n \in 1..Len(walks) : Len(walks') >= n /\ walks'[n] = walks[n]]_vars

C10_Witness ==
    /\ pc = "done"
    /\ number_of_walks = 1
    /\ NodeCount = 3
    /\ Len(walks) = 3
    /\ walks[2][1] = 1
====
